---- MODULE Spec2Model ----
(***************************************************************************)
(* Model of jobbee-api: the query builder APIFilters (utils/apiFilters)    *)
(* and the way getJobs chains and executes it (Spec); applying to a job    *)
(* and deleting a user (SpecJobs); registering, logging in and the routes  *)
(* behind isAuthenticatedUser (SpecAuth); forgotten passwords (SpecReset). *)
(*                                                                         *)
(* A JavaScript string is a sequence of one-character strings, so that the *)
(* regular expression of filter(), split/join and parseInt work on the     *)
(* characters as the code does.  A value of the parsed query string is a   *)
(* record [t, s, e]: t = "s" is a string with characters s, t = "o" is an  *)
(* object with the ordered entries e, each [k |-> key, v |-> value], and   *)
(* t = "a" is an array, its items the entries under the keys "0", "1", ... *)
(***************************************************************************)
EXTENDS Integers, Sequences, FiniteSets, TLC

VARIABLES
  queryStr,  \* this.queryStr of the builder: req.query
  query,     \* this.query of the builder: the handle being built
  called,    \* the stage methods invoked on the builder so far
  repeated,  \* whether one of them was invoked more than once
  phase,     \* "building" until the caller awaits the handle, then "executed"
  result,    \* what the awaited handle returned
  users,     \* the User collection: the ids of the documents it holds
  jobs,      \* the Job collection: per job id, the document
  requests,  \* the requests the server has received, each with its position
  tasks,     \* per request, the deleteUserData call it started
  tokens,    \* the ids of the users a JSON Web Token has been signed for
  account,   \* the user document of the account whose password is reset
  now,       \* Date.now()
  mail       \* the reset tokens generated, and whether the email was sent

builderVars == <<queryStr, query, called, repeated, phase, result>>
jobVars == <<users, jobs, requests, tasks>>
resetVars == <<account, now, mail>>

vars == <<builderVars, jobVars, tokens, resetVars>>

\* what the builder, the job and user handlers, the reset handlers leave alone
serverVars == <<jobVars, tokens, resetVars>>
restOfJobs == <<builderVars, tokens, resetVars>>
restOfReset == <<builderVars, users, jobs, tasks, tokens>>

----------------------------------------------------------------------------
(* Bounds of the model. *)

\* most keys a query string holds
MaxKeys == 2
\* most records of the collection that match the executed query
MaxJobs == 3
\* most users of role 'user'
MaxApplicants == 2
\* most jobs the employeer has posted
MaxPosted == 2
\* most requests the server receives in one run
MaxRequests == 3

----------------------------------------------------------------------------
(* Strings. *)

Str(s) == [t |-> "s", s |-> s, e |-> <<>>]
Obj(e) == [t |-> "o", s |-> <<>>, e |-> e]
Entry(k, v) == [k |-> k, v |-> v]

Digits == <<"0", "1", "2", "3", "4", "5", "6", "7", "8", "9">>

IsDigit(c) == \E i \in 1..10 : Digits[i] = c

DigitVal(c) == (CHOOSE i \in 1..10 : Digits[i] = c) - 1

Letters == {"A", "B", "C", "D", "E", "F", "G", "H", "I", "J", "K", "L", "M", "N",
            "O", "P", "Q", "R", "S", "T", "U", "V", "W", "X", "Y", "Z",
            "a", "b", "c", "d", "e", "f", "g", "h", "i", "j", "k", "l", "m", "n",
            "o", "p", "q", "r", "s", "t", "u", "v", "w", "x", "y", "z"}

\* \w of the regular expression: [A-Za-z0-9_]
IsWordChar(c) == c \in Letters \/ IsDigit(c) \/ c = "_"

\* String.prototype.split(sep) for a one-character separator
RECURSIVE SplitFrom(_, _, _)
SplitFrom(s, sep, cur) ==
  IF s = <<>> THEN <<cur>>
  ELSE IF Head(s) = sep THEN <<cur>> \o SplitFrom(Tail(s), sep, <<>>)
  ELSE SplitFrom(Tail(s), sep, Append(cur, Head(s)))

Split(s, sep) == SplitFrom(s, sep, <<>>)

\* Array.prototype.join(sep)
RECURSIVE Join(_, _)
Join(parts, sep) ==
  IF parts = <<>> THEN <<>>
  ELSE IF Len(parts) = 1 THEN parts[1]
  ELSE parts[1] \o <<sep>> \o Join(Tail(parts), sep)

----------------------------------------------------------------------------
(* parseInt(string, 10) and the || default of pagination(). *)

NaN == [nan |-> TRUE, n |-> 0]
Num(n) == [nan |-> FALSE, n |-> n]

IsSpace(c) == c = " "

RECURSIVE SkipSpaces(_)
SkipSpaces(s) == IF s # <<>> /\ IsSpace(Head(s)) THEN SkipSpaces(Tail(s)) ELSE s

\* the value of the longest prefix of digits of s, after the digits read so far
RECURSIVE DigitsValue(_, _)
DigitsValue(s, acc) ==
  IF s # <<>> /\ IsDigit(Head(s))
  THEN DigitsValue(Tail(s), acc * 10 + DigitVal(Head(s)))
  ELSE acc

ParseUnsigned(s) ==
  IF s # <<>> /\ IsDigit(Head(s)) THEN Num(DigitsValue(s, 0)) ELSE NaN

ParseSigned(s) ==
  IF s # <<>> /\ Head(s) = "-"
  THEN LET u == ParseUnsigned(Tail(s)) IN IF u.nan THEN NaN ELSE Num(0 - u.n)
  ELSE IF s # <<>> /\ Head(s) = "+" THEN ParseUnsigned(Tail(s))
  ELSE ParseUnsigned(s)

ParseInt(s) == ParseSigned(SkipSpaces(s))

----------------------------------------------------------------------------
(* Objects: ordered entries with distinct keys. *)

Undefined == [t |-> "u", s |-> <<>>, e |-> <<>>]

Has(es, k) == \E i \in 1..Len(es) : es[i].k = k

\* es[k], undefined when es has no key k
Get(es, k) ==
  IF Has(es, k) THEN es[CHOOSE i \in 1..Len(es) : es[i].k = k].v ELSE Undefined

\* delete es[k]
RECURSIVE Delete(_, _)
Delete(es, k) ==
  IF es = <<>> THEN <<>>
  ELSE IF Head(es).k = k THEN Delete(Tail(es), k)
  ELSE <<Head(es)>> \o Delete(Tail(es), k)

\* es[k] = v: an existing key keeps its place, a new key goes last
Put(es, k, v) ==
  IF Has(es, k)
  THEN [i \in 1..Len(es) |-> IF es[i].k = k THEN Entry(k, v) ELSE es[i]]
  ELSE Append(es, Entry(k, v))

Keys(es) == {es[i].k : i \in 1..Len(es)}

\* an array of at most ten items: a parameter given more than once
Arr(items) ==
  [t |-> "a", s |-> <<>>,
   e |-> [i \in 1..Len(items) |-> Entry(<<Digits[i]>>, items[i])]]

\* JavaScript truthiness of a query-string value
Truthy(v) == v.t = "o" \/ v.t = "a" \/ (v.t = "s" /\ v.s # <<>>)

\* String(v) of a string or of an array of strings: the items joined by ","
StringOf(v) ==
  IF v.t = "s" THEN v.s ELSE Join([i \in 1..Len(v.e) |-> v.e[i].v.s], ",")

----------------------------------------------------------------------------
(* JSON.stringify and JSON.parse, for strings that hold no quote, no       *)
(* backslash and no control character (none needs an escape).              *)

Quote == "\""

RECURSIVE Stringify(_)
RECURSIVE StringifyEntries(_)
RECURSIVE StringifyItems(_)
StringifyItems(es) ==
  IF es = <<>> THEN <<>>
  ELSE (IF Len(es) > 1 THEN StringifyItems(SubSeq(es, 1, Len(es) - 1)) \o <<",">> ELSE <<>>)
       \o Stringify(es[Len(es)].v)

StringifyEntries(es) ==
  IF es = <<>> THEN <<>>
  ELSE (IF Len(es) > 1 THEN StringifyEntries(SubSeq(es, 1, Len(es) - 1)) \o <<",">> ELSE <<>>)
       \o <<Quote>> \o es[Len(es)].k \o <<Quote, ":">> \o Stringify(es[Len(es)].v)

Stringify(v) ==
  IF v.t = "s" THEN <<Quote>> \o v.s \o <<Quote>>
  ELSE IF v.t = "a" THEN <<"[">> \o StringifyItems(v.e) \o <<"]">>
  ELSE <<"{">> \o StringifyEntries(v.e) \o <<"}">>

\* the index of the first quote of txt at or after i
RECURSIVE NextQuote(_, _)
NextQuote(txt, i) == IF txt[i] = Quote THEN i ELSE NextQuote(txt, i + 1)

\* JSON.parse: the value that starts at txt[i], and the index after it
RECURSIVE ParseValueAt(_, _)
RECURSIVE ParseEntriesAt(_, _, _)
RECURSIVE ParseItemsAt(_, _, _)
ParseValueAt(txt, i) ==
  IF txt[i] = Quote
  THEN LET j == NextQuote(txt, i + 1)
       IN [v |-> Str(SubSeq(txt, i + 1, j - 1)), n |-> j + 1]
  ELSE IF txt[i] = "["
  THEN (IF txt[i + 1] = "]" THEN [v |-> Arr(<<>>), n |-> i + 2]
        ELSE ParseItemsAt(txt, i + 1, <<>>))
  ELSE IF txt[i + 1] = "}" THEN [v |-> Obj(<<>>), n |-> i + 2]
  ELSE ParseEntriesAt(txt, i + 1, <<>>)

ParseItemsAt(txt, i, acc) ==
  LET val == ParseValueAt(txt, i)
      got == Append(acc, val.v)
  IN IF txt[val.n] = ","
     THEN ParseItemsAt(txt, val.n + 1, got)
     ELSE [v |-> Arr(got), n |-> val.n + 1]

ParseEntriesAt(txt, i, acc) ==
  LET key == ParseValueAt(txt, i)
      val == ParseValueAt(txt, key.n + 1)
      got == Put(acc, key.v.s, val.v)
  IN IF txt[val.n] = ","
     THEN ParseEntriesAt(txt, val.n + 1, got)
     ELSE [v |-> Obj(got), n |-> val.n + 1]

JsonParse(txt) == ParseValueAt(txt, 1).v

----------------------------------------------------------------------------
(* queryStr.replace(/\b(gt|gte|lt|lte|in)\b/g, match => `$${match}`)        *)

\* a group that lacks the alternatives gte and lte
OperatorTokensStrictOnly == << <<"g", "t">>, <<"l", "t">>, <<"i", "n">> >>

\* the alternatives of the group, in the order the regular expression tries them
OperatorTokens == << <<"g", "t">>, <<"g", "t", "e">>, <<"l", "t">>,
                    <<"l", "t", "e">>, <<"i", "n">> >>

\* a regular expression without \b: a token matches inside a word too
NoWordBoundary(txt, i) == TRUE

\* \b before txt[i]: exactly one of txt[i-1], txt[i] is a word character
WordBoundary(txt, i) ==
  LET w(j) == j >= 1 /\ j <= Len(txt) /\ IsWordChar(txt[j])
  IN w(i - 1) # w(i)

\* alternative a matches at txt[i], between two word boundaries
TokenMatches(txt, i, a) ==
  LET tok == OperatorTokens[a]
  IN /\ i + Len(tok) - 1 <= Len(txt)
     /\ SubSeq(txt, i, i + Len(tok) - 1) = tok
     /\ WordBoundary(txt, i)
     /\ WordBoundary(txt, i + Len(tok))

\* the length of the match at txt[i], 0 when none
MatchLen(txt, i) ==
  IF \E a \in 1..Len(OperatorTokens) : TokenMatches(txt, i, a)
  THEN LET first == CHOOSE a \in 1..Len(OperatorTokens) :
                  /\ TokenMatches(txt, i, a)
                  /\ \A b \in 1..(a - 1) : ~TokenMatches(txt, i, b)
       IN Len(OperatorTokens[first])
  ELSE 0

RECURSIVE ReplaceFrom(_, _)
ReplaceFrom(txt, i) ==
  IF i > Len(txt) THEN <<>>
  ELSE LET m == MatchLen(txt, i)
       IN IF m > 0
          THEN <<"$">> \o SubSeq(txt, i, i + m - 1) \o ReplaceFrom(txt, i + m)
          ELSE <<txt[i]>> \o ReplaceFrom(txt, i + 1)

ReplaceOperators(txt) == ReplaceFrom(txt, 1)

----------------------------------------------------------------------------
(* The query handle (a mongoose Query): the conditions find() has merged,  *)
(* the argument of the last sort() and select(), and skip and limit.       *)

Unset == [set |-> FALSE, n |-> 0]
SetTo(n) == [set |-> TRUE, n |-> n]

\* Job.find(): a fresh handle
NewQuery ==
  [conditions |-> <<>>, sort |-> Undefined, fields |-> Undefined,
   skip |-> Unset, limit |-> Unset]

\* Query.find(conditions) merges into the handle's conditions: a new key is
\* added, two objects under one key are merged, anything else is overwritten
RECURSIVE Merge(_, _)
Merge(to, from) ==
  IF from = <<>> THEN to
  ELSE LET e == Head(from)
           cur == Get(to, e.k)
           new == IF cur.t = "u" THEN e.v
                  ELSE IF e.v.t = "o"
                       THEN Obj(Merge(IF cur.t = "o" THEN cur.e ELSE <<>>, e.v.e))
                       ELSE e.v
       IN Merge(Put(to, e.k, new), Tail(from))

Find(h, pred) == [h EXCEPT !.conditions = Merge(@, pred.e)]

----------------------------------------------------------------------------
(* The stages of APIFilters, as functions of the handle and of queryStr.   *)

K_sort == <<"s", "o", "r", "t">>
K_fields == <<"f", "i", "e", "l", "d", "s">>
K_q == <<"q">>
K_limit == <<"l", "i", "m", "i", "t">>
K_page == <<"p", "a", "g", "e">>
K_text == <<"$", "t", "e", "x", "t">>
K_search == <<"$", "s", "e", "a", "r", "c", "h">>

\* a removeFields that lacks page
RemoveFieldsWithoutPage == <<K_sort, K_fields, K_q, K_limit>>

\* removeFields of filter()
RemoveFields == <<K_sort, K_fields, K_q, K_limit, K_page>>

RECURSIVE DeleteAll(_, _)
DeleteAll(es, ks) ==
  IF ks = <<>> THEN es ELSE DeleteAll(Delete(es, Head(ks)), Tail(ks))

\* const queryCopy = this.queryStr: a second name for the same object
AliasCopy(store, ref) == [store |-> store, ref |-> ref]

\* const queryCopy = {...this.queryStr}: a new object in the store of objects,
\* with the entries of the object at ref
SpreadCopy(store, ref) == [store |-> Append(store, store[ref]), ref |-> Len(store) + 1]

\* the body of filter() up to the deletes, over a store that holds the
\* object of this.queryStr at reference 1: that object and queryCopy after
FilterRun(qs) ==
  LET copy == SpreadCopy(<<qs>>, 1)
      after == [copy.store EXCEPT ![copy.ref] = DeleteAll(@, RemoveFields)]
  IN [queryStr |-> after[1], queryCopy |-> after[copy.ref]]

\* the predicate filter() hands to find()
FilterPredicate(qs) ==
  JsonParse(ReplaceOperators(Stringify(Obj(FilterRun(qs).queryCopy))))

FilterStage(h, qs) == Find(h, FilterPredicate(qs))

\* a default that sorts by posting date ascending
DefaultSortAscending == <<"p", "o", "s", "t", "i", "n", "g", "D", "a", "t", "e">>

DefaultSort == <<"-", "p", "o", "s", "t", "i", "n", "g", "D", "a", "t", "e">>

\* value.split(...) of a truthy value that is no string: split is not a function
SplitThrows(v) == Truthy(v) /\ v.t # "s"

SortBy(qs) ==
  IF Truthy(Get(qs, K_sort))
  THEN Join(Split(Get(qs, K_sort).s, ","), " ")
  ELSE DefaultSort

\* a sort() that appends to the directive already set
SortStageAppending(h, qs) ==
  [h EXCEPT !.sort = IF @.t = "u" THEN Str(SortBy(qs)) ELSE Str(@.s \o <<" ">> \o SortBy(qs))]

SortStage(h, qs) == [h EXCEPT !.sort = Str(SortBy(qs))]

DefaultFields == <<"-", "_", "_", "v">>

SelectFields(qs) ==
  IF Truthy(Get(qs, K_fields))
  THEN Join(Split(Get(qs, K_fields).s, ","), " ")
  ELSE DefaultFields

LimitFieldsStage(h, qs) == [h EXCEPT !.fields = Str(SelectFields(qs))]

\* the first separator of parts joined, the others kept: String.replace(sep, by)
JoinFirst(parts, sep, by) ==
  IF Len(parts) <= 1 THEN Join(parts, sep)
  ELSE parts[1] \o <<by>> \o Join(Tail(parts), sep)

\* a search that replaces the first hyphen only
SearchPredicateFirstHyphen(qs) ==
  LET qu == JoinFirst(Split(Get(qs, K_q).s, "-"), "-", " ")
  IN Obj(<<Entry(K_text, Obj(<<Entry(K_search, Str(<<Quote>> \o qu \o <<Quote>>))>>))>>)

\* {$text: {$search: "\"" + qu + "\""}}
SearchPredicate(qs) ==
  LET qu == Join(Split(Get(qs, K_q).s, "-"), " ")
  IN Obj(<<Entry(K_text, Obj(<<Entry(K_search, Str(<<Quote>> \o qu \o <<Quote>>))>>))>>)

SearchStage(h, qs) ==
  IF Truthy(Get(qs, K_q)) THEN Find(h, SearchPredicate(qs)) ELSE h

DefaultPage == 1
DefaultLimit == 10

\* parseInt(value, 10) of a query-string value, read as String(value):
\* undefined and objects give NaN
ParseIntValue(v) == IF v.t = "s" \/ v.t = "a" THEN ParseInt(StringOf(v)) ELSE NaN

\* x ?? d read as "d only for 0": NaN is passed on (as 0 in this model)
OrDefaultNotForNaN(x, d) == IF ~x.nan /\ x.n = 0 THEN d ELSE x.n

\* a default that also replaces negative numbers
OrDefaultClamped(x, d) == IF x.nan \/ x.n <= 0 THEN d ELSE x.n

\* x || d : NaN and 0 are falsy
OrDefault(x, d) == IF x.nan \/ x.n = 0 THEN d ELSE x.n

Page(qs) == OrDefault(ParseIntValue(Get(qs, K_page)), DefaultPage)
Limit(qs) == OrDefault(ParseIntValue(Get(qs, K_limit)), DefaultLimit)
\* a skip that counts pages from 0
SkipResultsFromZero(qs) == Page(qs) * Limit(qs)

SkipResults(qs) == (Page(qs) - 1) * Limit(qs)

PaginationStage(h, qs) ==
  [h EXCEPT !.skip = SetTo(SkipResults(qs)), !.limit = SetTo(Limit(qs))]

----------------------------------------------------------------------------
(* The query strings of the model: up to MaxKeys of these parameters, no   *)
(* key twice, in this order.                                               *)

Pool ==
  << Entry(K_page, Str(<<"2">>)),
     Entry(K_page, Str(<<"a", "b", "c">>)),
     Entry(K_page, Str(<<"-", "1">>)),
     Entry(K_page, Str(<<"0">>)),
     Entry(K_limit, Str(<<"2">>)),
     Entry(K_limit, Str(<<"x">>)),
     Entry(K_limit, Str(<<"0">>)),
     Entry(K_limit, Str(<<"-", "2">>)),
     Entry(K_limit, Str(<<"1", "2">>)),
     Entry(K_sort, Str(<<>>)),
     Entry(K_sort, Str(<<"a", ",", "-", "b">>)),
     Entry(K_q, Str(<<>>)),
     Entry(K_q, Str(<<"a", "-", "b", "-", "c">>)),
     Entry(K_fields, Str(<<"a", ",", "b">>)),
     Entry(<<"p", "r", "i", "c", "e">>, Obj(<<Entry(<<"g", "t", "e">>, Str(<<"5", "0">>))>>)),
     Entry(<<"l", "t">>, Obj(<<Entry(<<"i", "n">>, Str(<<"7">>))>>)),
     Entry(<<"t", "a", "g">>, Obj(<<Entry(<<"i", "n">>, Str(<<"i", "n">>))>>)),
     Entry(<<"g", "t">>, Str(<<"5">>)),
     Entry(K_text, Obj(<<Entry(K_search, Str(<<"x">>))>>)),
     Entry(<<"t", "i", "t", "l", "e">>, Str(<<"d", "e", "v">>)),
     Entry(K_sort, Arr(<<Str(<<"a">>), Str(<<"b">>)>>)),
     Entry(K_fields, Arr(<<Str(<<"a">>), Str(<<"b">>)>>)),
     Entry(K_q, Arr(<<Str(<<"a">>), Str(<<"b">>)>>)),
     Entry(K_page, Arr(<<Str(<<"2">>), Str(<<"3">>)>>)),
     Entry(<<"t", "a", "g">>, Arr(<<Str(<<"a">>), Str(<<"b">>)>>)),
     Entry(<<"o", "p">>, Str(<<"l", "t", "e">>)),
     Entry(<<"c", "i", "t", "y">>, Str(<<"i", "n", "-", "i", "n", "n">>)) >>

DistinctKeys(I) == \A i, j \in I : Pool[i].k = Pool[j].k => i = j

RECURSIVE Pick(_, _)
Pick(I, i) ==
  IF i > Len(Pool) THEN <<>>
  ELSE (IF i \in I THEN <<Pool[i]>> ELSE <<>>) \o Pick(I, i + 1)

\* the sets of at most n indices of Pool
RECURSIVE IndexSets(_)
IndexSets(n) ==
  IF n = 0 THEN {{}}
  ELSE LET smaller == IndexSets(n - 1)
       IN smaller \cup {J \cup {i} : J \in smaller, i \in 1..Len(Pool)}

RawParameters ==
  {Pick(I, 1) : I \in {J \in IndexSets(MaxKeys) : DistinctKeys(J)}}

----------------------------------------------------------------------------
(* One builder per request: construction, the five stages in any order,    *)
(* then the caller executes the handle.                                    *)

NoResult == [done |-> FALSE, error |-> FALSE, n |-> 0]

\* bcrypt.hash(password, 10) of the pre-save hook
Bcrypt(password) == <<"bcrypt", password>>

\* a registered user document with no reset token
InitialAccount ==
  [password |-> Bcrypt("p0"), resetPasswordToken |-> <<>>, resetPasswordExpire |-> Unset]

\* no request for a job or a user is in flight: the collections play no part
ServerIdle ==
  /\ users = {}
  /\ jobs = <<>>
  /\ requests = <<>>
  /\ tasks = <<>>
  /\ tokens = {}

\* no password reset is in flight
ResetIdle ==
  /\ account = InitialAccount
  /\ now = 0
  /\ mail = <<>>

\* no getJobs is in flight
BuilderIdle ==
  /\ queryStr = <<>>
  /\ query = NewQuery
  /\ called = {}
  /\ repeated = FALSE
  /\ phase = "idle"
  /\ result = NoResult

\* new APIFilters(Job.find(), req.query)
Init ==
  /\ queryStr \in RawParameters
  /\ query = NewQuery
  /\ called = {}
  /\ repeated = FALSE
  /\ phase = "building"
  /\ result = NoResult
  /\ ServerIdle
  /\ ResetIdle

\* a stage method that returns this, the handle replaced by h and the
\* object of this.queryStr left as qs
Invoke(stage, h, qs) ==
  /\ phase = "building"
  /\ query' = h
  /\ queryStr' = qs
  /\ called' = called \cup {stage}
  /\ repeated' = (repeated \/ stage \in called)
  /\ UNCHANGED <<phase, result, serverVars>>

\* a stage method that throws: the chain of getJobs ends in the error handler
Raise ==
  /\ phase = "building"
  /\ phase' = "failed"
  /\ UNCHANGED <<queryStr, query, called, repeated, result, serverVars>>

filter == Invoke("filter", FilterStage(query, queryStr), FilterRun(queryStr).queryStr)

sort ==
  IF SplitThrows(Get(queryStr, K_sort))
  THEN Raise
  ELSE Invoke("sort", SortStage(query, queryStr), queryStr)

limitFields ==
  IF SplitThrows(Get(queryStr, K_fields))
  THEN Raise
  ELSE Invoke("limitFields", LimitFieldsStage(query, queryStr), queryStr)

searchByQuery ==
  IF SplitThrows(Get(queryStr, K_q))
  THEN Raise
  ELSE Invoke("searchByQuery", SearchStage(query, queryStr), queryStr)

pagination == Invoke("pagination", PaginationStage(query, queryStr), queryStr)

\* the records the storage returns when matched records match the conditions:
\* a negative skip is rejected, limit 0 means no limit, a negative limit
\* means its absolute value
Returned(h, matched) ==
  LET skipped == IF h.skip.set THEN h.skip.n ELSE 0
      left == IF matched > skipped THEN matched - skipped ELSE 0
      lim == IF h.limit.set
             THEN (IF h.limit.n < 0 THEN 0 - h.limit.n ELSE h.limit.n)
             ELSE 0
  IN IF skipped < 0 THEN [done |-> TRUE, error |-> TRUE, n |-> 0]
     ELSE [done |-> TRUE, error |-> FALSE,
           n |-> IF lim = 0 \/ left < lim THEN left ELSE lim]

\* await apiFilters.query
execute ==
  /\ phase = "building"
  /\ \E matched \in 0..MaxJobs : result' = Returned(query, matched)
  /\ phase' = "executed"
  /\ UNCHANGED <<queryStr, query, called, repeated, serverVars>>

Next ==
  \/ filter
  \/ sort
  \/ limitFields
  \/ searchByQuery
  \/ pagination
  \/ execute

Spec == Init /\ [][Next]_vars

----------------------------------------------------------------------------
(* Vocabulary of the properties. *)

ControlKeys == {K_sort, K_fields, K_q, K_limit, K_page}

BareTokens == { <<"g", "t">>, <<"g", "t", "e">>, <<"l", "t">>, <<"l", "t", "e">>, <<"i", "n">> }

Sigil(tok) == <<"$">> \o tok

\* the maximal runs of word characters of s
RECURSIVE WordsFrom(_, _)
WordsFrom(s, cur) ==
  IF s = <<>> THEN (IF cur = <<>> THEN {} ELSE {cur})
  ELSE IF IsWordChar(Head(s)) THEN WordsFrom(Tail(s), Append(cur, Head(s)))
  ELSE (IF cur = <<>> THEN {} ELSE {cur}) \cup WordsFrom(Tail(s), <<>>)

HasTokenWord(s) == WordsFrom(s, <<>>) \cap BareTokens # {}

\* the keys of a predicate, at the top and one level below
PredicateKeys(es) ==
  Keys(es) \cup UNION {Keys(es[i].v.e) : i \in 1..Len(es)}

\* filter() has acted and no other stage has touched the conditions
OnlyFilterNarrowed == "filter" \in called /\ "searchByQuery" \notin called

\* the entries field[op]=value of queryStr with op one of the five tokens
OperatorEntries ==
  UNION {{<<i, j>> : j \in {n \in 1..Len(queryStr[i].v.e) : queryStr[i].v.e[n].k \in BareTokens}} :
           i \in {m \in 1..Len(queryStr) : queryStr[m].k \notin ControlKeys /\ queryStr[m].v.t = "o"}}

\* field[op]=value has become field: {$op: value} in the conditions
RewrittenInPlace(i, j) ==
  LET field == queryStr[i].k
      op == queryStr[i].v.e[j].k
      value == queryStr[i].v.e[j].v
  IN Get(Get(query.conditions, field).e, Sigil(op)) = value

\* C1 as stated: every field[op]=value with op a token reaches the handle as
\* the sigil-prefixed operator under the same field with the same value, and
\* no key of the predicate is a bare token.
C1_SameFieldSameValue ==
  OnlyFilterNarrowed =>
    /\ \A ij \in OperatorEntries : RewrittenInPlace(ij[1], ij[2])
    /\ PredicateKeys(query.conditions) \cap BareTokens = {}

\* C1 amended: no key of the predicate is a bare token, and field[op]=value
\* reaches the handle as field: {$op: value} whenever neither the field name
\* nor the value holds one of the five tokens as a whole word.
C1_OperatorKeysRewritten ==
  OnlyFilterNarrowed =>
    /\ PredicateKeys(query.conditions) \cap BareTokens = {}
    /\ \A ij \in OperatorEntries :
         LET e == queryStr[ij[1]]
             value == e.v.e[ij[2]].v
         IN (~HasTokenWord(e.k) /\ value.t = "s" /\ ~HasTokenWord(value.s))
              => RewrittenInPlace(ij[1], ij[2])

\* price[gte]=50 has been filtered into price: {$gte: "50"}
C1_Witness ==
  /\ OnlyFilterNarrowed
  /\ \E ij \in OperatorEntries :
       /\ queryStr[ij[1]].k = <<"p", "r", "i", "c", "e">>
       /\ queryStr[ij[1]].v.e[ij[2]].k = <<"g", "t", "e">>
       /\ RewrittenInPlace(ij[1], ij[2])

\* the keys of queryStr that filter() keeps
SurvivingKeys == Keys(queryStr) \ ControlKeys

\* C2: the predicate of filter() has no control key and exactly one clause
\* for each other key of queryStr (under that key when the key holds no token
\* word); with control keys only, the predicate is empty.
C2_ControlKeysRemoved ==
  OnlyFilterNarrowed =>
    /\ Keys(query.conditions) \cap ControlKeys = {}
    /\ Len(query.conditions) = Cardinality(SurvivingKeys)
    /\ \A k \in SurvivingKeys : ~HasTokenWord(k) => Has(query.conditions, k)
    /\ (Keys(queryStr) \subseteq ControlKeys => query.conditions = <<>>)

\* {page, sort} alone has been filtered into the empty predicate
C2_Witness ==
  /\ OnlyFilterNarrowed
  /\ Keys(queryStr) = {K_sort, K_page}
  /\ query.conditions = <<>>

\* s is a decimal numeral: digits only, at least one
IsNumeral(s) == s # <<>> /\ \A i \in 1..Len(s) : IsDigit(s[i])

\* the number a numeral denotes, from its last digit
RECURSIVE NumeralValue(_)
NumeralValue(s) ==
  IF s = <<>> THEN 0
  ELSE 10 * NumeralValue(SubSeq(s, 1, Len(s) - 1)) + DigitVal(s[Len(s)])

\* queryStr[k] is a numeral of a positive integer
PositiveParam(k) ==
  LET v == Get(queryStr, k)
  IN v.t = "s" /\ IsNumeral(v.s) /\ NumeralValue(v.s) > 0

ParamValue(k) == NumeralValue(Get(queryStr, k).s)

Paginated == "pagination" \in called

\* C3: with page=p and limit=l positive integers, pagination() sets
\* skip (p-1)*l and limit l, and the executed query returns at most l records.
C3_SkipAndLimit ==
  (Paginated /\ PositiveParam(K_page) /\ PositiveParam(K_limit)) =>
    /\ query.skip = SetTo((ParamValue(K_page) - 1) * ParamValue(K_limit))
    /\ query.limit = SetTo(ParamValue(K_limit))
    /\ (result.done => ~result.error /\ result.n <= ParamValue(K_limit))

\* page=2&limit=2 has been executed over more than two matching records
C3_Witness ==
  /\ Paginated /\ PositiveParam(K_page) /\ PositiveParam(K_limit)
  /\ ParamValue(K_page) = 2
  /\ query.skip = SetTo(2)
  /\ result.done /\ result.n = 1

\* queryStr[k] is a string that parseInt cannot read
Unparseable(k) ==
  LET v == Get(queryStr, k)
  IN v.t = "s" /\ ParseInt(v.s).nan

\* skip and limit of h are those pagination() sets for the query string qs
PaginatedAs(h, qs) == h.skip = SetTo(SkipResults(qs)) /\ h.limit = SetTo(Limit(qs))

\* C4: an unparseable page or limit gives the skip and limit of the same
\* query string without that key: page is 1 (skip 0), limit is 10.
C4_UnparseableIsAbsent ==
  Paginated =>
    /\ Unparseable(K_page) =>
         query.skip = SetTo(0) /\ PaginatedAs(query, Delete(queryStr, K_page))
    /\ Unparseable(K_limit) =>
         query.limit = SetTo(10) /\ PaginatedAs(query, Delete(queryStr, K_limit))

\* page=abc with limit=2 has been paginated
C4_Witness ==
  /\ Paginated
  /\ Unparseable(K_page)
  /\ Has(queryStr, K_limit)
  /\ query.limit = SetTo(2)
  /\ query.skip = SetTo(0)

\* C5 as stated: whatever page and limit are, pagination() applies a limit
\* of at least 1 and a skip of at least 0.
C5_PositivePagination ==
  Paginated => query.limit.n >= 1 /\ query.skip.n >= 0

\* queryStr[k] is "-" and a numeral, or a numeral of zero
NonPositiveParam(k) ==
  LET v == Get(queryStr, k)
  IN /\ v.t = "s"
     /\ \/ IsNumeral(v.s) /\ NumeralValue(v.s) = 0
        \/ v.s # <<>> /\ Head(v.s) = "-" /\ IsNumeral(Tail(v.s))

NonPositiveValue(k) ==
  LET s == Get(queryStr, k).s
  IN IF Head(s) = "-" THEN 0 - NumeralValue(Tail(s)) ELSE 0

NegativeParam(k) == NonPositiveParam(k) /\ NonPositiveValue(k) < 0

ZeroParam(k) == NonPositiveParam(k) /\ NonPositiveValue(k) = 0

\* C6 as stated: a page or limit that parses as a negative or zero integer is
\* used as parsed: limit is that integer, skip is (page-1)*limit for it.
C6_NonPositivePassedThrough ==
  Paginated =>
    /\ NonPositiveParam(K_limit) => query.limit.n = NonPositiveValue(K_limit)
    /\ NonPositiveParam(K_page) =>
         query.skip.n = (NonPositiveValue(K_page) - 1) * query.limit.n

\* C6 amended: a page or limit that parses as a negative integer is used as
\* parsed (skip is (page-1)*limit, negative pages give skips below zero); one
\* that parses as zero is replaced by the default, page 1 or limit 10.
C6_NegativePassedZeroDefaulted ==
  Paginated =>
    /\ NegativeParam(K_limit) => query.limit.n = NonPositiveValue(K_limit)
    /\ NegativeParam(K_page) =>
         query.skip.n = (NonPositiveValue(K_page) - 1) * query.limit.n
    /\ ZeroParam(K_limit) => query.limit.n = 10
    /\ ZeroParam(K_page) => query.skip.n = 0

\* page=-1 with limit=2 has been paginated to skip -4
C6_Witness ==
  /\ Paginated
  /\ NegativeParam(K_page)
  /\ query.limit = SetTo(2)
  /\ query.skip = SetTo(0 - 4)

\* filter() and sort() have both acted
FilteredAndSorted == "filter" \in called /\ "sort" \in called

PostingDateDescending == <<"-", "p", "o", "s", "t", "i", "n", "g", "D", "a", "t", "e">>

\* the directive names the fields of the comma-separated list, in its order
SameFieldsInOrder(directive, list) == Split(directive, " ") = Split(list, ",")

\* C7 as stated: without sort the directive is '-postingDate'; with sort it
\* is the fields of the comma-separated list in the same order.
C7_SortDirective ==
  FilteredAndSorted =>
    IF Has(queryStr, K_sort)
    THEN query.sort.t = "s" /\ SameFieldsInOrder(query.sort.s, Get(queryStr, K_sort).s)
    ELSE query.sort = Str(PostingDateDescending)

\* no field name of the list holds a space
NoSpace(list) == \A i \in 1..Len(list) : list[i] # " "

\* C7 amended: without sort, or with sort the empty string, the directive is
\* '-postingDate'; with sort a non-empty string (a list of field names without
\* spaces) it is the fields of the list in order.
C7_SortDirectiveOrDefault ==
  FilteredAndSorted =>
    LET v == Get(queryStr, K_sort)
    IN /\ (v.t = "u" \/ v = Str(<<>>)) => query.sort = Str(PostingDateDescending)
       /\ (v.t = "s" /\ v.s # <<>> /\ NoSpace(v.s)) =>
            query.sort.t = "s" /\ SameFieldsInOrder(query.sort.s, v.s)

\* sort=a,-b has been applied as "a -b" after filter()
C7_Witness ==
  /\ FilteredAndSorted
  /\ Get(queryStr, K_sort) = Str(<<"a", ",", "-", "b">>)
  /\ query.sort = Str(<<"a", " ", "-", "b">>)

\* C8: after any number of sort() calls the handle holds the one directive
\* that a single sort() on a fresh handle sets.
C8_SortIdempotent ==
  "sort" \in called => query.sort = SortStage(NewQuery, queryStr).sort

\* sort() alone has been invoked more than once
C8_Witness ==
  /\ called = {"sort"}
  /\ repeated
  /\ Has(queryStr, K_sort)
  /\ query.sort.s # <<>>

\* searchByQuery() has acted and filter() has not
OnlySearchNarrowed == "searchByQuery" \in called /\ "filter" \notin called

\* s with every hyphen replaced by a space
Dehyphenated(s) == [i \in 1..Len(s) |-> IF s[i] = "-" THEN " " ELSE s[i]]

\* the conditions hold exactly the text search for q between double quotes
PhraseSearchFor(q) ==
  /\ Keys(query.conditions) = {K_text}
  /\ Get(query.conditions, K_text).e =
       <<Entry(K_search, Str(<<Quote>> \o Dehyphenated(q) \o <<Quote>>))>>

\* C9 as stated: with q present the handle searches the quoted phrase q with
\* its hyphens turned into spaces; with q absent the handle is untouched.
C9_PhraseSearch ==
  OnlySearchNarrowed =>
    IF Has(queryStr, K_q)
    THEN PhraseSearchFor(Get(queryStr, K_q).s)
    ELSE query.conditions = <<>>

\* C9 amended: with q a non-empty string the handle searches the quoted phrase
\* q with its hyphens turned into spaces; with q absent or the empty string it
\* is untouched.
C9_PhraseSearchUnlessEmpty ==
  OnlySearchNarrowed =>
    LET v == Get(queryStr, K_q)
    IN /\ (v.t = "s" /\ v.s # <<>>) => PhraseSearchFor(v.s)
       /\ (v.t = "u" \/ v = Str(<<>>)) => query.conditions = <<>>

\* q=a-b-c has become the search for "a b c"
C9_Witness ==
  /\ OnlySearchNarrowed
  /\ Get(queryStr, K_q) = Str(<<"a", "-", "b", "-", "c">>)
  /\ PhraseSearchFor(<<"a", "-", "b", "-", "c">>)

\* the handle after the stages of S in the order filter, searchByQuery, sort,
\* limitFields, pagination
InOrder(S) ==
  LET h1 == IF "filter" \in S THEN FilterStage(NewQuery, queryStr) ELSE NewQuery
      h2 == IF "searchByQuery" \in S THEN SearchStage(h1, queryStr) ELSE h1
      h3 == IF "sort" \in S THEN SortStage(h2, queryStr) ELSE h2
      h4 == IF "limitFields" \in S THEN LimitFieldsStage(h3, queryStr) ELSE h3
  IN IF "pagination" \in S THEN PaginationStage(h4, queryStr) ELSE h4

\* two objects hold the same keys with the same values, in whatever order
RECURSIVE SameEntries(_, _)
SameEntries(a, b) ==
  /\ Keys(a) = Keys(b)
  /\ \A k \in Keys(a) :
       LET v == Get(a, k)
           w == Get(b, k)
       IN v.t = w.t /\ v.s = w.s /\ SameEntries(v.e, w.e)

\* two handles describe the same query
SameHandle(g, h) ==
  /\ SameEntries(g.conditions, h.conditions)
  /\ g.sort = h.sort /\ g.fields = h.fields
  /\ g.skip = h.skip /\ g.limit = h.limit

C12_QueryStrNeverMutated == [][queryStr' = queryStr]_vars

\* filter() has run over parameters that hold a control key, which is still
\* in queryStr
C12_Witness ==
  /\ "filter" \in called
  /\ Keys(queryStr) \cap ControlKeys # {}
  /\ Keys(query.conditions) \cap ControlKeys = {}
  /\ Len(query.conditions) < Len(queryStr)

\* the entries of queryStr that filter() keeps, in their order
KeptEntries == SelectSeq(queryStr, LAMBDA e : e.k \notin ControlKeys)

\* a value that is one of the five tokens with the sigil, any other as given
SigilIfToken(s) == IF s \in BareTokens THEN Sigil(s) ELSE s

\* s with the sigil before every whole word of s that is one of the five
\* tokens; cur is the word being read
RECURSIVE SigilWords(_, _)
SigilWords(s, cur) ==
  IF s = <<>> THEN SigilIfToken(cur)
  ELSE IF IsWordChar(Head(s)) THEN SigilWords(Tail(s), Append(cur, Head(s)))
  ELSE SigilIfToken(cur) \o <<Head(s)>> \o SigilWords(Tail(s), <<>>)

\* the i-th clause of the conditions holds the i-th kept string value as
\* Expected makes it
StringValueBecomes(i, Expected(_)) ==
  KeptEntries[i].v.t = "s" =>
    /\ i <= Len(query.conditions)
    /\ query.conditions[i].v = Str(Expected(KeptEntries[i].v.s))

\* C13 as stated: a string value reaches the predicate as given, unless it
\* equals one of the five tokens, which gets the sigil.
C13_OnlyTokenValuesRewritten ==
  OnlyFilterNarrowed =>
    \A i \in 1..Len(KeptEntries) : StringValueBecomes(i, SigilIfToken)

\* C13 amended: a string value reaches the predicate with the sigil before
\* every whole word of it that is one of the five tokens, so a value equal to
\* a token gets the sigil and a value with no such word arrives as given.
C13_TokenWordsRewritten ==
  OnlyFilterNarrowed =>
    \A i \in 1..Len(KeptEntries) :
      /\ StringValueBecomes(i, LAMBDA s : SigilWords(s, <<>>))
      /\ (KeptEntries[i].v.t = "s" /\ ~HasTokenWord(KeptEntries[i].v.s))
            => query.conditions[i].v = KeptEntries[i].v

\* op=lte&city=in-inn has been filtered into op: "$lte", city: "$in-inn"
C13_Witness ==
  /\ OnlyFilterNarrowed
  /\ Get(queryStr, <<"o", "p">>) = Str(<<"l", "t", "e">>)
  /\ Get(queryStr, <<"c", "i", "t", "y">>) = Str(<<"i", "n", "-", "i", "n", "n">>)
  /\ Get(query.conditions, <<"o", "p">>) = Str(<<"$", "l", "t", "e">>)
  /\ Get(query.conditions, <<"c", "i", "t", "y">>) = Str(<<"$", "i", "n", "-", "i", "n", "n">>)

----------------------------------------------------------------------------
(* Applying to a job and deleting a user (controllers/jobsController,      *)
(* controllers/userController).  A handler runs up to its next await in    *)
(* one step; requests interleave at the awaits.  A user id is a number,    *)
(* the users of role 'user' are 1..MaxApplicants, and one employeer has    *)
(* posted every job.                                                       *)

Applicants == 1..MaxApplicants
Employeer == MaxApplicants + 1
UserIds == Applicants \cup {Employeer}
JobIds == 1..MaxPosted

\* req.user when User.findById found no document: null
NoUser == 0

\* getJwtToken: jwt.sign({id: this._id}), the token of user u
Jwt(u) == [kind |-> "jwt", id |-> u]

\* what a request presents: no Authorization header, a token that jwt.verify
\* rejects, or the token of a user
Credentials ==
  {[kind |-> "none", id |-> NoUser], [kind |-> "forged", id |-> NoUser]}
    \cup {Jwt(u) : u \in UserIds}

\* the routes behind authorizeRoles, and the roles each admits
RolesOf(route) ==
  IF route = "applyJob" \/ route = "getAppliedJobs" THEN {"user"}
  ELSE {"user", "employeer"}

\* the role field of a user document
Role(u) == IF u = Employeer THEN "employeer" ELSE "user"

\* an element of applicantsApplied: {id: req.user.id, resume: file.name},
\* the file named after the user and the job
Application(u, j) == [id |-> u, resume |-> <<u, j>>]

\* a job document: posted until the employeer's jobs are deleted, open until
\* its lastDate, with its version key __v
PostedJob == [posted |-> TRUE, open |-> TRUE, applicantsApplied |-> <<>>, v |-> 0]

IdleRequest == [route |-> "none", pc |-> "idle", user |-> NoUser, param |-> 0, status |-> 0]
IdleTask == [pc |-> "idle", user |-> NoUser, role |-> "none", docs |-> <<>>]

\* the request ends with this response status
Respond(r, code) == [requests[r] EXCEPT !.pc = "done", !.status = code]

\* the slot of the next request the server receives
NextRequest(r) ==
  /\ requests[r].pc = "idle"
  /\ \A q \in 1..(r - 1) : requests[q].pc # "idle"

\* applicantsApplied holds an element whose id is u
HasApplied(list, u) == \E i \in 1..Len(list) : list[i].id = u

\* x == item of MongooseArray.indexOf: an element is an object and x an id
\* string, and an object equals a string only if its text "[object Object]" is
\* that string
LooseEquals(item, x) == FALSE

\* MongooseArray.indexOf(x): the index from 0 of the first element that
\* equals x, -1 when there is none
IndexOf(list, x) ==
  IF \E i \in 1..Len(list) : LooseEquals(list[i], x)
  THEN (CHOOSE i \in 1..Len(list) :
          /\ LooseEquals(list[i], x)
          /\ \A k \in 1..(i - 1) : ~LooseEquals(list[k], x)) - 1
  ELSE 0 - 1

\* list after list.splice(start): the elements from start on are removed, a
\* negative start counts from the end
Splice(list, start) ==
  LET from == IF start < 0
              THEN (IF Len(list) + start < 0 THEN 0 ELSE Len(list) + start)
              ELSE (IF start > Len(list) THEN Len(list) ELSE start)
  IN SubSeq(list, 1, from)

\* Array.prototype.find(o => o.id === u): the first element of u
FindApplication(list, u) ==
  list[CHOOSE i \in 1..Len(list) :
         /\ list[i].id = u
         /\ \A k \in 1..(i - 1) : list[k].id # u]

\* the users registered, the jobs posted, no request received yet
InitJobs ==
  /\ users = UserIds
  /\ jobs = [j \in JobIds |-> PostedJob]
  /\ requests = [r \in 1..MaxRequests |-> IdleRequest]
  /\ tasks = [r \in 1..MaxRequests |-> IdleTask]
  /\ tokens = UserIds
  /\ BuilderIdle
  /\ ResetIdle

\* isAuthenticatedUser, then what next() runs in the same turn: the
\* authorizeRoles(...) of the route, if it has one, up to the handler.
\* req.user is the document of the id in the token, null when there is none;
\* authorizeRoles throws on req.user null, a route without it goes on
isAuthenticatedUser(r, cred, route) ==
  /\ NextRequest(r)
  /\ cred.kind = "jwt" => cred.id \in tokens
  /\ LET found == IF cred.id \in users THEN cred.id ELSE NoUser
         arrived == [requests[r] EXCEPT !.route = route, !.user = found]
         answer(code) == [arrived EXCEPT !.pc = "done", !.status = code]
     IN requests' = [requests EXCEPT ![r] =
          IF cred.kind = "none" THEN answer(401)
          ELSE IF cred.kind = "forged" THEN answer(500)
          ELSE IF route \notin {"applyJob", "getAppliedJobs"}
               THEN [arrived EXCEPT !.pc = "handler"]
          ELSE IF found = NoUser THEN answer(500)
          ELSE IF Role(found) \notin RolesOf(route) THEN answer(403)
          ELSE [arrived EXCEPT !.pc = "handler"]]
  /\ UNCHANGED <<users, jobs, tasks, restOfJobs>>

\* the lastDate of job j passes
lastDatePasses(j) ==
  /\ jobs[j].posted /\ jobs[j].open
  /\ jobs' = [jobs EXCEPT ![j].open = FALSE]
  /\ UNCHANGED <<users, requests, tasks, restOfJobs>>

\* what the checks of applyJob on the uploaded file find
Files == {"none", "no document", "too large", "accepted"}

\* applyJob from Job.findById to file.mv: job j as it is read, the checks on
\* it and on the upload
applyJob(r, j, file) ==
  /\ requests[r].pc = "handler" /\ requests[r].route = "applyJob"
  /\ requests' = [requests EXCEPT ![r] =
       IF ~jobs[j].posted THEN Respond(r, 404)
       ELSE IF ~jobs[j].open THEN Respond(r, 400)
       ELSE IF HasApplied(jobs[j].applicantsApplied, requests[r].user) THEN Respond(r, 400)
       ELSE IF file # "accepted" THEN Respond(r, 400)
       ELSE [requests[r] EXCEPT !.pc = "moving", !.param = j]]
  /\ UNCHANGED <<users, jobs, tasks, restOfJobs>>

\* the callback of file.mv: on success Job.findByIdAndUpdate pushes the
\* application onto the job, if the job is still there
applyJob_moved(r, err) ==
  /\ requests[r].pc = "moving"
  /\ LET j == requests[r].param
         u == requests[r].user
     IN IF err
        THEN /\ requests' = [requests EXCEPT ![r] = Respond(r, 500)]
             /\ UNCHANGED jobs
        ELSE /\ jobs' = [jobs EXCEPT ![j].applicantsApplied =
                           IF jobs[j].posted THEN Append(@, Application(u, j)) ELSE @]
             /\ requests' = [requests EXCEPT ![r] = Respond(r, 200)]
  /\ UNCHANGED <<users, tasks, restOfJobs>>

\* deleteUserData(user, role) called and not awaited: it runs on its own
StartDeleteUserData(r, u) ==
  [tasks EXCEPT ![r] = [pc |-> "called", user |-> u, role |-> Role(u), docs |-> <<>>]]

\* deleteUser up to await User.findByIdAndDelete; req.user.id throws on
\* req.user null
deleteUser(r) ==
  /\ requests[r].pc = "handler" /\ requests[r].route = "deleteUser"
  /\ IF requests[r].user = NoUser
     THEN /\ requests' = [requests EXCEPT ![r] = Respond(r, 500)]
          /\ UNCHANGED tasks
     ELSE /\ tasks' = StartDeleteUserData(r, requests[r].user)
          /\ requests' = [requests EXCEPT ![r].pc = "deleting", ![r].param = requests[r].user]
  /\ UNCHANGED <<users, jobs, restOfJobs>>

\* deleteUser from User.findByIdAndDelete on
deleteUser_deleted(r) ==
  /\ requests[r].pc = "deleting" /\ requests[r].route = "deleteUser"
  /\ users' = users \ {requests[r].param}
  /\ requests' = [requests EXCEPT ![r] = Respond(r, 200)]
  /\ UNCHANGED <<jobs, tasks, restOfJobs>>

\* an admin's DELETE /user/:id, deleteUserAdmin up to await user.remove()
deleteUserAdmin(r, id) ==
  /\ NextRequest(r)
  /\ IF id \notin users
     THEN /\ requests' = [requests EXCEPT ![r] =
                [Respond(r, 404) EXCEPT !.route = "deleteUserAdmin", !.param = id]]
          /\ UNCHANGED tasks
     ELSE /\ tasks' = StartDeleteUserData(r, id)
          /\ requests' = [requests EXCEPT ![r] =
                [route |-> "deleteUserAdmin", pc |-> "deleting", user |-> NoUser,
                 param |-> id, status |-> 0]]
  /\ UNCHANGED <<users, jobs, restOfJobs>>

\* deleteUserAdmin from user.remove() on
deleteUserAdmin_removed(r) ==
  /\ requests[r].pc = "deleting" /\ requests[r].route = "deleteUserAdmin"
  /\ users' = users \ {requests[r].param}
  /\ requests' = [requests EXCEPT ![r] = Respond(r, 200)]
  /\ UNCHANGED <<jobs, tasks, restOfJobs>>

\* deleteUserData of an employeer: Job.deleteMany({user})
deleteUserData_deleteMany(r) ==
  /\ tasks[r].pc = "called" /\ tasks[r].role = "employeer"
  /\ jobs' = [j \in JobIds |-> [jobs[j] EXCEPT !.posted = FALSE, !.applicantsApplied = <<>>]]
  /\ tasks' = [tasks EXCEPT ![r].pc = "done"]
  /\ UNCHANGED <<users, requests, restOfJobs>>

\* the documents Job.find({'applicantsApplied.id': u}) returns, from job j on
RECURSIVE AppliedJobs(_, _)
AppliedJobs(u, j) ==
  IF j > MaxPosted THEN <<>>
  ELSE (IF jobs[j].posted /\ HasApplied(jobs[j].applicantsApplied, u)
        THEN <<[job |-> j, applicantsApplied |-> jobs[j].applicantsApplied, v |-> jobs[j].v]>>
        ELSE <<>>) \o AppliedJobs(u, j + 1)

\* deleteUserData of a user: the jobs the user applied to, as they are read
deleteUserData_find(r) ==
  /\ tasks[r].pc = "called" /\ tasks[r].role = "user"
  /\ LET appliedJobs == AppliedJobs(tasks[r].user, 1)
     IN tasks' = [tasks EXCEPT ![r].docs = appliedJobs,
                               ![r].pc = IF appliedJobs = <<>> THEN "done" ELSE "loop"]
  /\ UNCHANGED <<users, jobs, requests, restOfJobs>>

\* applicantsApplied.splice(applicantsApplied.indexOf(obj.id)) on a document
Spliced(list, u) == Splice(list, IndexOf(list, FindApplication(list, u).id))

\* one turn of the loop of deleteUserData: the splice on the document read,
\* then save(), which writes the whole array where the version key still is
\* the one read, and otherwise rejects
deleteUserData_save(r) ==
  /\ tasks[r].pc = "loop"
  /\ LET doc == Head(tasks[r].docs)
         j == doc.job
         rest == Tail(tasks[r].docs)
     IN IF jobs[j].posted /\ jobs[j].v = doc.v
        THEN /\ jobs' = [jobs EXCEPT ![j].applicantsApplied = Spliced(doc.applicantsApplied, tasks[r].user),
                                     ![j].v = @ + 1]
             /\ tasks' = [tasks EXCEPT ![r].docs = rest,
                                       ![r].pc = IF rest = <<>> THEN "done" ELSE "loop"]
        ELSE /\ tasks' = [tasks EXCEPT ![r].pc = "rejected"]
             /\ UNCHANGED jobs
  /\ UNCHANGED <<users, requests, restOfJobs>>

NextJobs ==
  \/ \E r \in 1..MaxRequests, u \in UserIds, route \in {"applyJob", "deleteUser"} :
       isAuthenticatedUser(r, Jwt(u), route)
  \/ \E j \in JobIds : lastDatePasses(j)
  \/ \E r \in 1..MaxRequests, j \in JobIds, file \in Files : applyJob(r, j, file)
  \/ \E r \in 1..MaxRequests, err \in BOOLEAN : applyJob_moved(r, err)
  \/ \E r \in 1..MaxRequests : deleteUser(r)
  \/ \E r \in 1..MaxRequests : deleteUser_deleted(r)
  \/ \E r \in 1..MaxRequests, id \in UserIds : deleteUserAdmin(r, id)
  \/ \E r \in 1..MaxRequests : deleteUserAdmin_removed(r)
  \/ \E r \in 1..MaxRequests : deleteUserData_deleteMany(r)
  \/ \E r \in 1..MaxRequests : deleteUserData_find(r)
  \/ \E r \in 1..MaxRequests : deleteUserData_save(r)

SpecJobs == InitJobs /\ [][NextJobs]_vars

\* the elements of job j's applicantsApplied whose id is u
EntriesOf(j, u) == SelectSeq(jobs[j].applicantsApplied, LAMBDA a : a.id = u)

\* C14 as stated: whatever the interleaving of the requests, no job holds
\* two applications of one user.
C14_AtMostOneEntryPerUser ==
  \A j \in JobIds, u \in Applicants : Len(EntriesOf(j, u)) <= 1

\* job j loses applications in this step
LosesApplications(j) ==
  /\ jobs[j].posted /\ jobs'[j].posted
  /\ Len(jobs'[j].applicantsApplied) < Len(jobs[j].applicantsApplied)

\* C15 as stated: a job loses applications only to the deleteUserData of a
\* user, and then exactly the applications of that user: every other
\* applicant's element stays, in its place.
C15_OnlyOwnEntriesRemoved ==
  [][\A j \in JobIds : LosesApplications(j) =>
       \E r \in 1..MaxRequests :
         /\ tasks[r].pc = "loop"
         /\ jobs'[j].applicantsApplied =
              SelectSeq(jobs[j].applicantsApplied, LAMBDA a : a.id # tasks[r].user)]_vars

----------------------------------------------------------------------------
(* Forgotten passwords (controllers/authContoller, models/users): one      *)
(* account, the clock in quarters of an hour, the n-th reset token         *)
(* generated is n.                                                         *)

\* most quarters of an hour a run lasts
MaxTime == 3

\* 30*60*1000 milliseconds, in quarters of an hour
ResetWindow == 2

\* crypto.createHash('sha256').update(token).digest('hex')
Sha256(token) == <<"sha256", token>>

\* the passwords a reset request may carry
Passwords == {"p1", "p2"}

IdleReset == [route |-> "none", pc |-> "idle", token |-> 0, password |-> "", status |-> 0]

\* the account exists, no reset token generated, no request received yet
InitReset ==
  /\ account = InitialAccount
  /\ now = 0
  /\ mail = <<>>
  /\ requests = [r \in 1..MaxRequests |-> IdleReset]
  /\ users = {}
  /\ jobs = <<>>
  /\ tasks = <<>>
  /\ tokens = {}
  /\ BuilderIdle

\* Date.now() advances
tick ==
  /\ now < MaxTime
  /\ now' = now + 1
  /\ UNCHANGED <<account, mail, requests, restOfReset>>

\* forgotPassword up to User.findOne({email}): known says whether the email
\* address is the account's
forgotPassword(r, known) ==
  /\ NextRequest(r)
  /\ requests' = [requests EXCEPT ![r] =
       IF known THEN [IdleReset EXCEPT !.route = "forgotPassword", !.pc = "found"]
       ELSE [Respond(r, 404) EXCEPT !.route = "forgotPassword"]]
  /\ UNCHANGED <<account, now, mail, restOfReset>>

\* getResetPasswordToken and user.save: a new token, its hash and its expiry
\* stored; the password is not modified and stays
forgotPassword_save(r) ==
  /\ requests[r].pc = "found" /\ requests[r].route = "forgotPassword"
  /\ LET resetToken == Len(mail) + 1
     IN /\ account' = [account EXCEPT !.resetPasswordToken = Sha256(resetToken),
                                      !.resetPasswordExpire = SetTo(now + ResetWindow)]
        /\ mail' = Append(mail, [token |-> resetToken, delivered |-> FALSE])
        /\ requests' = [requests EXCEPT ![r].pc = "mailing", ![r].token = resetToken]
  /\ UNCHANGED <<now, restOfReset>>

\* sendEmail: sent, or failed, and then the token and expiry are cleared
\* and saved
forgotPassword_mailed(r, sent) ==
  /\ requests[r].pc = "mailing"
  /\ IF sent
     THEN /\ mail' = [mail EXCEPT ![requests[r].token].delivered = TRUE]
          /\ requests' = [requests EXCEPT ![r] = Respond(r, 200)]
          /\ UNCHANGED account
     ELSE /\ account' = [account EXCEPT !.resetPasswordToken = <<>>,
                                        !.resetPasswordExpire = Unset]
          /\ requests' = [requests EXCEPT ![r] = Respond(r, 500)]
          /\ UNCHANGED mail
  /\ UNCHANGED <<now, restOfReset>>

\* the tokens a reset request may carry: one that was mailed, or one that
\* never was generated
Presentable == {0} \cup {n \in 1..Len(mail) : mail[n].delivered}

\* User.findOne({resetPasswordToken, resetPasswordExpire: {$gt: Date.now()}})
FindByResetToken(token) ==
  /\ account.resetPasswordToken = Sha256(token)
  /\ account.resetPasswordExpire.set
  /\ account.resetPasswordExpire.n > now

\* resetPassword up to User.findOne
resetPassword(r, token, password) ==
  /\ NextRequest(r)
  /\ token \in Presentable
  /\ LET arrived == [IdleReset EXCEPT !.route = "resetPassword", !.token = token,
                                      !.password = password]
     IN requests' = [requests EXCEPT ![r] =
          IF FindByResetToken(token) THEN [arrived EXCEPT !.pc = "found"]
          ELSE [arrived EXCEPT !.pc = "done", !.status = 400]]
  /\ UNCHANGED <<account, now, mail, restOfReset>>

\* resetPassword from user.save on: the new password hashed by the pre-save
\* hook, token and expiry cleared, then sendToken
resetPassword_save(r) ==
  /\ requests[r].pc = "found" /\ requests[r].route = "resetPassword"
  /\ account' = [password |-> Bcrypt(requests[r].password),
                 resetPasswordToken |-> <<>>,
                 resetPasswordExpire |-> Unset]
  /\ requests' = [requests EXCEPT ![r] = Respond(r, 200)]
  /\ UNCHANGED <<now, mail, restOfReset>>

NextReset ==
  \/ tick
  \/ \E r \in 1..MaxRequests, known \in BOOLEAN : forgotPassword(r, known)
  \/ \E r \in 1..MaxRequests : forgotPassword_save(r)
  \/ \E r \in 1..MaxRequests, sent \in BOOLEAN : forgotPassword_mailed(r, sent)
  \/ \E r \in 1..MaxRequests, token \in 0..MaxRequests, password \in Passwords :
       resetPassword(r, token, password)
  \/ \E r \in 1..MaxRequests : resetPassword_save(r)

SpecReset == InitReset /\ [][NextReset]_vars

\* the reset requests with this token that were answered 200
SuccessfulResets(token) ==
  {r \in 1..MaxRequests :
     /\ requests[r].route = "resetPassword"
     /\ requests[r].token = token
     /\ requests[r].status = 200}

\* C16 as stated: no reset token leads to more than one successful
\* resetPassword.
C16_AtMostOneSuccessfulReset ==
  \A n \in 1..Len(mail) : Cardinality(SuccessfulResets(n)) <= 1

----------------------------------------------------------------------------
(* Registering, logging in, and the routes behind isAuthenticatedUser      *)
(* (controllers/authContoller, middlewares/auth, routes/user).  A user     *)
(* registers once in a run: an id stands for the email address too.        *)

\* nothing registered, nothing posted, no request received yet
InitAuth ==
  /\ users = {}
  /\ tokens = {}
  /\ jobs = [j \in JobIds |-> [PostedJob EXCEPT !.posted = FALSE]]
  /\ requests = [r \in 1..MaxRequests |-> IdleRequest]
  /\ tasks = [r \in 1..MaxRequests |-> IdleTask]
  /\ BuilderIdle
  /\ ResetIdle

\* registerUser: User.create, which rejects an email address already in the
\* collection as a duplicate key, then sendToken
registerUser(r, u) ==
  /\ NextRequest(r)
  /\ u \in users \/ u \notin tokens
  /\ IF u \in users
     THEN /\ requests' = [requests EXCEPT ![r] =
                [Respond(r, 400) EXCEPT !.route = "registerUser"]]
          /\ UNCHANGED <<users, tokens>>
     ELSE /\ users' = users \cup {u}
          /\ tokens' = tokens \cup {u}
          /\ requests' = [requests EXCEPT ![r] =
                [Respond(r, 200) EXCEPT !.route = "registerUser", !.user = u]]
  /\ UNCHANGED <<jobs, tasks, builderVars, resetVars>>

\* what loginUser finds of the password entered: none, one comparePassword
\* rejects, one it accepts
EnteredPasswords == {"none", "wrong", "right"}

\* loginUser: the checks, then sendToken; the error for a missing password
\* carries no status code
loginUser(r, u, password) ==
  /\ NextRequest(r)
  /\ LET answer(code) == [Respond(r, code) EXCEPT !.route = "loginUser"]
     IN IF password = "none"
        THEN /\ requests' = [requests EXCEPT ![r] = answer(500)]
             /\ UNCHANGED tokens
        ELSE IF u \notin users \/ password = "wrong"
        THEN /\ requests' = [requests EXCEPT ![r] = answer(401)]
             /\ UNCHANGED tokens
        ELSE /\ requests' = [requests EXCEPT ![r] = [answer(200) EXCEPT !.user = u]]
             /\ tokens' = tokens \cup {u}
  /\ UNCHANGED <<users, jobs, tasks, builderVars, resetVars>>

\* getUserProfile: User.findById(req.user.id) throws on req.user null
getUserProfile(r) ==
  /\ requests[r].pc = "handler" /\ requests[r].route = "getUserProfile"
  /\ requests' = [requests EXCEPT ![r] =
       IF requests[r].user = NoUser THEN Respond(r, 500) ELSE Respond(r, 200)]
  /\ UNCHANGED <<users, jobs, tasks, restOfJobs>>

\* getAppliedJobs, behind authorizeRoles('user')
getAppliedJobs(r) ==
  /\ requests[r].pc = "handler" /\ requests[r].route = "getAppliedJobs"
  /\ requests' = [requests EXCEPT ![r] = Respond(r, 200)]
  /\ UNCHANGED <<users, jobs, tasks, restOfJobs>>

\* logout: clears the cookie and answers, whatever req.user is
logout(r) ==
  /\ requests[r].pc = "handler" /\ requests[r].route = "logout"
  /\ requests' = [requests EXCEPT ![r] = Respond(r, 200)]
  /\ UNCHANGED <<users, jobs, tasks, restOfJobs>>

\* the routes behind isAuthenticatedUser that this specification serves
ProtectedRoutes == {"getUserProfile", "getAppliedJobs", "logout", "deleteUser"}

NextAuth ==
  \/ \E r \in 1..MaxRequests, u \in UserIds : registerUser(r, u)
  \/ \E r \in 1..MaxRequests, u \in UserIds, password \in EnteredPasswords :
       loginUser(r, u, password)
  \/ \E r \in 1..MaxRequests, cred \in Credentials, route \in ProtectedRoutes :
       isAuthenticatedUser(r, cred, route)
  \/ \E r \in 1..MaxRequests : getUserProfile(r)
  \/ \E r \in 1..MaxRequests : getAppliedJobs(r)
  \/ \E r \in 1..MaxRequests : logout(r)
  \/ \E r \in 1..MaxRequests : deleteUser(r)
  \/ \E r \in 1..MaxRequests : deleteUser_deleted(r)
  \/ \E r \in 1..MaxRequests : deleteUserData_deleteMany(r)
  \/ \E r \in 1..MaxRequests : deleteUserData_find(r)

SpecAuth == InitAuth /\ [][NextAuth]_vars

\* C17 as stated: a handler behind isAuthenticatedUser is reached only with
\* req.user a user document, never with req.user null.
C17_HandlerOnlyWithUser ==
  \A r \in 1..MaxRequests : requests[r].pc = "handler" => requests[r].user # NoUser

====
